---- MODULE Spec2Model ----
(***************************************************************************)
(* Client-side data-synchronisation core of the Production Intelligence    *)
(* dashboard: the query cache (TanStack Query client configured in         *)
(* main.tsx), the optimistic mutations of useOptimisations / useAlerts,    *)
(* the push-event handler of useWebSocket, the zod ingestion schemas and   *)
(* the gap-driver computation of the mock API.                             *)
(***************************************************************************)
EXTENDS Integers, Sequences, FiniteSets, TLC

(***************************************************************************)
(* Bounds of the model.                                                    *)
(***************************************************************************)
MaxOrphans == 1
MaxMutations == 2

Min(a, b) == IF a < b THEN a ELSE b
Max(a, b) == IF a < b THEN b ELSE a

(***************************************************************************)
(* Query keys.  A key is a sequence whose elements are strings (Str) or    *)
(* filter objects (Obj).                                                   *)
(***************************************************************************)
Str(s) == [str |-> s]
Obj(a) == [asset |-> a]
StreamObj == [stream |-> "all"]

AssetIds == {"east", "west"}

kOptList(a) == <<Str("optimisations"), Obj(a)>>
kOptAsset(a) == <<Str("optimisations"), Str("asset"), Str(a), StreamObj>>
kOptHigh == <<Str("optimisations"), Str("high-priority")>>
kAlertList == <<Str("alerts"), Obj("all")>>
kAlertCritical == <<Str("alerts"), Str("critical")>>
kSummary == <<Str("summary"), Str("mtd")>>
kSummaryAsset(a) == <<Str("summary"), Str("asset"), Str(a)>>
kNodes == <<Str("nodes"), Obj("all")>>

OptKeys == {kOptList("all"), kOptList("west"), kOptAsset("east"), kOptAsset("west"), kOptHigh}
AlertKeys == {kAlertList, kAlertCritical}
SummaryKeys == {kSummary} \cup {kSummaryAsset(a) : a \in AssetIds}
Keys == OptKeys \cup AlertKeys \cup SummaryKeys \cup {kNodes}

KindOf(k) == k[1].str

\* the asset an entry is filtered by ("all" when it is not filtered by asset)
AssetFilterOf(k) ==
  IF Len(k) >= 3 /\ k[2] = Str("asset") THEN k[3].str
  ELSE IF Len(k) >= 2 /\ "asset" \in DOMAIN k[2] THEN k[2].asset
  ELSE "all"

\* queryKey prefix matching of the query filters { queryKey: fk }
PartialMatchKey(qk, fk) ==
  /\ Len(fk) <= Len(qk)
  /\ \A i \in 1..Len(fk) : qk[i] = fk[i]

(***************************************************************************)
(* Entities and cached values.                                             *)
(***************************************************************************)
OptIds == {"X", "Y"}
AlertIds == {"A"}
OptAssetOf(id) == IF id = "X" THEN "east" ELSE "west"

OptCounters == {"pending", "acknowledged", "implemented"}
AlertCounters == {"active", "acknowledged", "resolved"}

NoItems == [i \in {} |-> "none"]
NoSummary == [c \in {} |-> 0]
NoData == [shape |-> "none", items |-> NoItems, summary |-> NoSummary]
KpiData == [shape |-> "kpi", items |-> NoItems, summary |-> NoSummary]

CountStatus(items, st) == Cardinality({i \in DOMAIN items : items[i] = st})

\* ids the server returns for a key, given the server-side statuses
ServerIds(k, srv) ==
  IF k = kOptHigh THEN {i \in OptIds : srv[i] = "pending"}
  ELSE IF k \in OptKeys THEN {i \in OptIds : AssetFilterOf(k) \in {"all", OptAssetOf(i)}}
  ELSE IF k \in AlertKeys THEN {i \in AlertIds : srv[i] = "active"}
  ELSE {}

ServerSummary(k, items) ==
  IF k \in OptKeys
  THEN [c \in OptCounters |->
          IF c = "implemented" THEN CountStatus(items, "completed") ELSE CountStatus(items, c)]
  ELSE [c \in AlertCounters |-> CountStatus(items, c)]

\* the value a successful fetch of key k stores
ServerValue(k, srv) ==
  LET items == [i \in ServerIds(k, srv) |-> srv[i]] IN
  IF k \in {kOptHigh, kAlertCritical}
  THEN [shape |-> "array", items |-> items, summary |-> NoSummary]
  ELSE IF k \in OptKeys \cup AlertKeys
  THEN [shape |-> "response", items |-> items, summary |-> ServerSummary(k, items)]
  ELSE KpiData

(***************************************************************************)
(* Cache entries.  fetch is "idle" or "inflight" (a network call of the     *)
(* current fetch is outstanding; the retry delay between two calls of one  *)
(* fetch is not modelled).  orphans counts the network calls of cancelled  *)
(* fetches that are still outstanding: no queryFn passes the abort signal  *)
(* to apiClient, so a cancelled fetch only has its response dropped.       *)
(* byFetch tells that the entry's value was last written by a fetch (not by *)
(* setQueryData).                                                          *)
(* last records what the step that led to the state did (NoLast when it    *)
(* is none of the recorded operations).                                    *)
(***************************************************************************)
EmptyEntry ==
  [present |-> FALSE, data |-> NoData, stale |-> FALSE, fetch |-> "idle",
   failureCount |-> 0, calls |-> 0, error |-> "none", orphans |-> 0, byFetch |-> FALSE]

NoContext == [k \in {} |-> NoData]
NoLast ==
  [op |-> "none", hook |-> "none", id |-> "none", context |-> NoContext, key |-> <<>>,
   status |-> 0, retried |-> FALSE, repeated |-> FALSE, found |-> "none"]

VARIABLES cache, order, plan, server, muts, started, lastEvent, last, input, output

StartFetch(e) ==
  [e EXCEPT !.fetch = "inflight", !.failureCount = 0, !.calls = 1]

\* Query.fetch(options, { cancelRefetch })
QueryFetch(e, cancelRefetch) ==
  IF e.fetch # "idle"
  THEN IF e.data # NoData /\ cancelRefetch
       THEN [StartFetch(e) EXCEPT
               !.orphans = Min(e.orphans + 1, MaxOrphans)]
       ELSE e
  ELSE StartFetch(e)

\* an invalidation that flips the stale mark instead of setting it
QueryInvalidateFlip(e) == QueryFetch([e EXCEPT !.stale = ~e.stale], TRUE)

\* Query.invalidate() followed by the refetch of the (active) query
QueryInvalidate(e) == QueryFetch([e EXCEPT !.stale = TRUE], TRUE)

InvalidateQueries(c, fk) ==
  [k \in Keys |-> IF c[k].present /\ PartialMatchKey(k, fk) THEN QueryInvalidate(c[k]) ELSE c[k]]

RECURSIVE InvalidateAll(_, _)
InvalidateAll(c, fks) ==
  IF fks = <<>> THEN c ELSE InvalidateAll(InvalidateQueries(c, Head(fks)), Tail(fks))

\* Query.cancel({ revert: true }): the fetch is dropped, its network call keeps running
QueryCancel(e) ==
  IF e.fetch = "idle" THEN e
  ELSE [e EXCEPT !.fetch = "idle", !.orphans = Min(e.orphans + 1, MaxOrphans)]

CancelQueries(c, fk) ==
  [k \in Keys |-> IF c[k].present /\ PartialMatchKey(k, fk) THEN QueryCancel(c[k]) ELSE c[k]]

\* queryClient.getQueriesData({ queryKey: fk })
GetQueriesData(c, fk) ==
  [k \in {q \in Keys : c[q].present /\ PartialMatchKey(q, fk)} |-> c[k].data]

\* queryClient.setQueryData(key, data): undefined data is ignored
SetQueryData(e, data) ==
  IF data = NoData THEN e
  ELSE [e EXCEPT !.present = TRUE, !.data = data, !.stale = FALSE, !.error = "none",
                 !.byFetch = FALSE]

(***************************************************************************)
(* useWebSocket.handleMessage                                              *)
(***************************************************************************)
HandledEventTypes == {"new_optimisation", "optimisation_update", "system_alert", "performance_change"}
WebSocketEventType == {"optimisation_update", "constraint_alert", "kpi_update", "system_status"}
EventTypes == HandledEventTypes \cup WebSocketEventType

AffectedAssetLists == {<<"east">>, <<"west">>, <<"east", "west">>}

NoEvent == [id |-> 0, type |-> "none", hasAssets |-> FALSE, affectedAssets |-> <<>>]
Events ==
  [id : {0}, type : EventTypes, hasAssets : {TRUE}, affectedAssets : AffectedAssetLists]
  \cup [id : {0}, type : EventTypes, hasAssets : {FALSE}, affectedAssets : {<<>>}]

TypeFilters(type) ==
  CASE type \in {"new_optimisation", "optimisation_update"} -> <<  <<Str("optimisations")>>  >>
    [] type = "system_alert" -> <<  <<Str("alerts")>>, <<Str("summary")>>  >>
    [] type = "performance_change" -> <<  <<Str("summary")>>, <<Str("nodes")>>  >>
    [] OTHER -> <<>>

RECURSIVE AssetFilters(_)
AssetFilters(assets) ==
  IF assets = <<>> THEN <<>>
  ELSE << <<Str("summary"), Str("asset"), Str(Head(assets))>>,
          <<Str("optimisations"), Str("asset"), Str(Head(assets))>> >> \o AssetFilters(Tail(assets))

EventFilters(ev) ==
  TypeFilters(ev.type) \o (IF ev.hasAssets THEN AssetFilters(ev.affectedAssets) ELSE <<>>)

\* lastEvent.id alternates so that two deliveries in a row differ, as the event ids do;
\* last.repeated tells that the step before delivered the same event
HandleMessage(ev) ==
  /\ lastEvent' = [ev EXCEPT !.id = 1 - lastEvent.id]
  /\ cache' = InvalidateAll(cache, EventFilters(ev))
  /\ UNCHANGED <<order, plan, server, muts, started, input, output>>
  /\ last' = [NoLast EXCEPT !.op = "event",
                            !.repeated = (last.op = "event" /\ [lastEvent EXCEPT !.id = 0] = ev)]

(***************************************************************************)
(* Reads: mounting a query, polling it, and the completion of its fetch    *)
(***************************************************************************)
\* useQuery of a key not yet in the cache; hooks create their queries in plan order
Mount(k) ==
  /\ ~cache[k].present
  /\ Len(order) < Len(plan)
  /\ k = plan[Len(order) + 1]
  /\ cache' = [cache EXCEPT ![k] = StartFetch([EmptyEntry EXCEPT !.present = TRUE])]
  /\ order' = Append(order, k)
  /\ UNCHANGED <<plan, server, muts, started, lastEvent, input, output>>
  /\ last' = NoLast

\* a mount that refetches whatever the age of the data
ShouldFetchAlways(e) == TRUE

\* refetchOnMount (default true): fetch when there is no data or the data is stale
ShouldFetchOnMount(e) == e.data = NoData \/ e.stale

\* a component reads a key that is already cached (a further useQuery on it);
\* last.found tells what the read found
Read(k) ==
  /\ cache[k].present
  /\ cache' = [cache EXCEPT ![k] = IF ShouldFetchOnMount(@) THEN QueryFetch(@, FALSE) ELSE @]
  /\ last' = [NoLast EXCEPT !.op = "read", !.key = k,
                            !.found = IF cache[k].data = NoData THEN "empty"
                                      ELSE IF cache[k].stale THEN "stale" ELSE "fresh"]
  /\ UNCHANGED <<order, plan, server, muts, started, lastEvent, input, output>>

\* refetchInterval (or a remount of a stale query): no cancelRefetch, so it is de-duplicated
Poll(k) ==
  /\ cache[k].present
  /\ cache[k].fetch = "idle"
  /\ cache' = [cache EXCEPT ![k] = QueryFetch(@, FALSE)]
  /\ UNCHANGED <<order, plan, server, muts, started, lastEvent, input, output>>
  /\ last' = NoLast

FetchSucceed(k) ==
  /\ cache[k].fetch = "inflight"
  /\ cache' = [cache EXCEPT ![k] = [@ EXCEPT !.data = ServerValue(k, server), !.stale = FALSE,
                                              !.fetch = "idle", !.error = "none",
                                              !.byFetch = TRUE]]
  /\ UNCHANGED <<order, plan, server, muts, started, lastEvent, input, output>>
  /\ last' = NoLast

\* the response of a cancelled fetch arrives and is dropped
OrphanReturn(k) ==
  /\ cache[k].orphans > 0
  /\ cache' = [cache EXCEPT ![k].orphans = @ - 1]
  /\ UNCHANGED <<order, plan, server, muts, started, lastEvent, input, output>>
  /\ last' = NoLast

(***************************************************************************)
(* Failed fetches: the response interceptor turns every AxiosError into an *)
(* ApiError (createApiError) before the retry option of the query sees it  *)
(***************************************************************************)
\* transport outcomes: no response (network failure / 30 s timeout) or an HTTP status,
\* with or without a JSON body carrying a message
AxiosErrors ==
  [status : {0}, body : {"none"}]
  \cup [status : {400, 404, 500, 504}, body : {"none", "Optimisation not found"}]

\* the ApiError message: the body's message, else a text built from error.message
\* ("Request failed with status code <status>"); kept as the text kind and the status in it
CreateApiError(ax) ==
  LET status == ax.status
      fromBody == ax.body # "none"
  IN [message |-> IF fromBody THEN [kind |-> "body", text |-> ax.body, status |-> 0]
                  ELSE IF status >= 400 /\ status < 500 THEN [kind |-> "client", text |-> "Client error: ", status |-> status]
                  ELSE IF status >= 500 THEN [kind |-> "server", text |-> "Server error: ", status |-> status]
                  ELSE [kind |-> "unexpected", text |-> "An unexpected error occurred", status |-> 0],
      code |-> IF fromBody THEN "UNKNOWN_ERROR"
               ELSE IF status >= 400 /\ status < 500 THEN "CLIENT_ERROR"
               ELSE IF status >= 500 THEN "SERVER_ERROR"
               ELSE "UNKNOWN_ERROR"]

HasDigit4(n) == n > 0 /\ (n % 10 = 4 \/ (n \div 10) % 10 = 4 \/ (n \div 100) % 10 = 4)

\* error.message.includes('4'): none of the fixed texts holds a '4', the status digits may
Includes4(message) == HasDigit4(message.status)

\* (error as AxiosError)?.response?.status ?? 0
ResponseStatusOf(error) == IF "response" \in DOMAIN error THEN error.response.status ELSE 0

\* queries.retry of the query client
RetryDefault(failureCount, error) ==
  LET status == ResponseStatusOf(error)
  IN IF status >= 400 /\ status < 500 THEN FALSE ELSE failureCount < 3

\* retry of useNodes
RetryNodes(failureCount, error) ==
  IF Includes4(error.message) THEN FALSE ELSE failureCount < 3

\* retry: 2 of useOptimisations
OptimisationsRetry == 2

ShouldRetry(k, failureCount, error) ==
  IF k = kNodes THEN RetryNodes(failureCount, error)
  ELSE IF k \in {kOptList(a) : a \in AssetIds \cup {"all"}} THEN failureCount < OptimisationsRetry
  ELSE RetryDefault(failureCount, error)

\* a network call of the fetch fails: retried (the call is sent again after the retry
\* delay) or surfaced as the query's error, the cached data kept
FetchFail(k, ax) ==
  /\ cache[k].fetch = "inflight"
  /\ LET err == CreateApiError(ax)
         retry == ShouldRetry(k, cache[k].failureCount, err)
     IN /\ cache' = [cache EXCEPT ![k] =
                       IF retry THEN [@ EXCEPT !.failureCount = @ + 1, !.calls = @ + 1]
                       ELSE [@ EXCEPT !.fetch = "idle", !.error = err.code]]
        /\ last' = [NoLast EXCEPT !.op = "fetchFail", !.key = k, !.status = ax.status, !.retried = retry]
  /\ UNCHANGED <<order, plan, server, muts, started, lastEvent, input, output>>

\* staleTime has elapsed since the data was stored
StaleTimeElapsed(k) ==
  /\ cache[k].present
  /\ cache[k].data # NoData
  /\ ~cache[k].stale
  /\ cache' = [cache EXCEPT ![k].stale = TRUE]
  /\ last' = NoLast
  /\ UNCHANGED <<order, plan, server, muts, started, lastEvent, input, output>>

\* useInvalidateNodes().invalidateAllNodes
InvalidateAllNodes ==
  /\ cache[kNodes].present
  /\ cache' = InvalidateQueries(cache, <<Str("nodes")>>)
  /\ last' = NoLast
  /\ UNCHANGED <<order, plan, server, muts, started, lastEvent, input, output>>

(***************************************************************************)
(* Mutations: useAcknowledgeOptimisation, useImplementOptimisation,        *)
(* useAcknowledgeAlert, useResolveAlert                                    *)
(***************************************************************************)
OptHooks == {"acknowledgeOptimisation", "implementOptimisation"}
AlertHooks == {"acknowledgeAlert", "resolveAlert"}
Hooks == OptHooks \cup AlertHooks

HookPrefix(h) == IF h \in OptHooks THEN <<Str("optimisations")>> ELSE <<Str("alerts")>>
HookIds(h) == IF h \in OptHooks THEN OptIds ELSE AlertIds
HasOnMutate(h) == h # "resolveAlert"
HasOnSuccess(h) == h = "resolveAlert"

\* status written by the hook's updater (and applied by the server on success)
HookStatus(h) ==
  CASE h = "acknowledgeOptimisation" -> "acknowledged"
    [] h = "implementOptimisation" -> "completed"
    [] h = "acknowledgeAlert" -> "acknowledged"
    [] h = "resolveAlert" -> "resolved"

CounterDown(h) == IF h \in OptHooks THEN "pending" ELSE "active"
CounterUp(h) ==
  CASE h = "acknowledgeOptimisation" -> "acknowledged"
    [] h = "implementOptimisation" -> "implemented"
    [] h = "acknowledgeAlert" -> "acknowledged"
    [] h = "resolveAlert" -> "resolved"

\* an onSettled that invalidates the hook's own resource kind only
SettledFiltersOwnKind(h) == <<HookPrefix(h)>>

SettledFilters(h) ==
  CASE h = "acknowledgeOptimisation" -> <<  <<Str("optimisations")>>  >>
    [] h = "implementOptimisation" -> <<  <<Str("optimisations")>>, <<Str("summary")>>, <<Str("nodes")>>  >>
    [] h = "acknowledgeAlert" -> <<  <<Str("alerts")>>  >>
    [] h = "resolveAlert" -> <<  <<Str("alerts")>>, <<Str("summary")>>  >>

\* mutations: { retry: 1 } of the query client
MutationRetry == 1

\* the updater passed to setQueriesData; old.optimisations / old.alerts is
\* undefined on an array-shaped value, and .map on it throws
Updater(h, id, old) ==
  IF old = NoData THEN [threw |-> FALSE, data |-> NoData]
  ELSE IF old.shape # "response" THEN [threw |-> TRUE, data |-> old]
  ELSE [threw |-> FALSE,
        data |-> [old EXCEPT
                    !.items = [i \in DOMAIN old.items |-> IF i = id THEN HookStatus(h) ELSE old.items[i]],
                    !.summary = [old.summary EXCEPT ![CounterDown(h)] = @ - 1, ![CounterUp(h)] = @ + 1]]]

MatchingInOrder(ord, fk) == SelectSeq(ord, LAMBDA k : PartialMatchKey(k, fk))

\* queryClient.setQueriesData(filters, updater): entries in cache order, stops where the updater throws
RECURSIVE SetQueriesData(_, _, _, _)
SetQueriesData(c, ks, h, id) ==
  IF ks = <<>> THEN [cache |-> c, threw |-> FALSE]
  ELSE LET k == Head(ks)
           r == Updater(h, id, c[k].data)
       IN IF r.threw THEN [cache |-> c, threw |-> TRUE]
          ELSE SetQueriesData([c EXCEPT ![k] = SetQueryData(@, r.data)], Tail(ks), h, id)

\* a partial rollback: only one snapshotted entry is written back
RollbackOneEntry(c, mu) ==
  IF mu.hasContext /\ DOMAIN mu.context # {}
  THEN LET one == CHOOSE k \in DOMAIN mu.context : TRUE
       IN [k \in Keys |-> IF k = one THEN SetQueryData(c[k], mu.context[k]) ELSE c[k]]
  ELSE c

\* onError: context.previousData.forEach(([queryKey, data]) => setQueryData(queryKey, data))
Rollback(c, mu) ==
  IF mu.hasContext
  THEN [k \in Keys |-> IF k \in DOMAIN mu.context THEN SetQueryData(c[k], mu.context[k]) ELSE c[k]]
  ELSE c

\* muts holds the mutations in progress, oldest first; started counts the user actions
RemoveAt(sq, i) == [j \in 1..(Len(sq) - 1) |-> IF j < i THEN sq[j] ELSE sq[j + 1]]

\* mutate(): onMutate (cancel, snapshot, optimistic apply), then the first network call;
\* an onMutate that throws goes straight to onError / onSettled without a network call
Mutate(h, id) ==
  /\ started < MaxMutations
  /\ order # <<>>
  /\ KindOf(plan[1]) = HookPrefix(h)[1].str
  /\ id \in HookIds(h)
  /\ started' = started + 1
  /\ LET c1 == CancelQueries(cache, HookPrefix(h))
         ctx == GetQueriesData(c1, HookPrefix(h))
         r == SetQueriesData(c1, MatchingInOrder(order, HookPrefix(h)), h, id)
         mu == [hook |-> h, id |-> id, hasContext |-> FALSE, context |-> NoContext,
                failureCount |-> 0, calls |-> 1]
     IN IF ~HasOnMutate(h)
        THEN /\ cache' = cache
             /\ muts' = Append(muts, mu)
        ELSE IF r.threw
        THEN /\ cache' = InvalidateAll(r.cache, SettledFilters(h))
             /\ muts' = muts
        ELSE /\ cache' = r.cache
             /\ muts' = Append(muts, [mu EXCEPT !.hasContext = TRUE, !.context = ctx])
  /\ last' = [NoLast EXCEPT !.op = "mutate", !.hook = h, !.id = id]
  /\ UNCHANGED <<order, plan, server, lastEvent, input, output>>

\* the network call fails: while failureCount < retry the call is sent again (after
\* the retry delay), else onError and onSettled run
MutationFail(m) ==
  /\ m \in 1..Len(muts)
  /\ IF muts[m].failureCount < MutationRetry
     THEN /\ muts' = [muts EXCEPT ![m].failureCount = @ + 1, ![m].calls = @ + 1]
          /\ cache' = cache
          /\ last' = NoLast
     ELSE /\ muts' = RemoveAt(muts, m)
          /\ cache' = InvalidateAll(Rollback(cache, muts[m]), SettledFilters(muts[m].hook))
          /\ last' = [NoLast EXCEPT !.op = "rollback", !.hook = muts[m].hook, !.id = muts[m].id,
                                    !.context = muts[m].context]
  /\ UNCHANGED <<order, plan, server, started, lastEvent, input, output>>

\* the network call succeeds: the server applies the change, then onSuccess and onSettled
MutationSucceed(m) ==
  /\ m \in 1..Len(muts)
  /\ LET h == muts[m].hook
         id == muts[m].id
         r == IF HasOnSuccess(h)
              THEN SetQueriesData(cache, MatchingInOrder(order, HookPrefix(h)), h, id)
              ELSE [cache |-> cache, threw |-> FALSE]
     IN /\ server' = [server EXCEPT ![id] = HookStatus(h)]
        /\ cache' = InvalidateAll(r.cache, SettledFilters(h))
        /\ muts' = RemoveAt(muts, m)
  /\ UNCHANGED <<order, plan, started, lastEvent, input, output>>
  /\ last' = [NoLast EXCEPT !.op = "success", !.hook = muts[m].hook, !.id = muts[m].id]

cacheVars == <<cache, order, plan, server, muts, started, lastEvent, last>>
vars == <<cache, order, plan, server, muts, started, lastEvent, last, input, output>>

InitServer == [i \in OptIds \cup AlertIds |-> IF i \in OptIds THEN "pending" ELSE "active"]

FreshEntry(k, srv) ==
  [EmptyEntry EXCEPT !.present = TRUE, !.data = ServerValue(k, srv), !.byFetch = TRUE]

RangeOf(sq) == {sq[i] : i \in 1..Len(sq)}

(***************************************************************************)
(* Push events over a dashboard whose queries have been fetched once       *)
(***************************************************************************)
EventPlans ==
  { <<kAlertList, kSummary, kOptAsset("west")>>,
    <<kOptList("west"), kOptAsset("west"), kOptAsset("east")>>,
    <<kOptList("all"), kOptHigh, kNodes>>,
    <<kAlertCritical, kSummaryAsset("west"), kSummaryAsset("east")>> }

InitEvents ==
  /\ server = InitServer
  /\ plan \in EventPlans
  /\ order = plan
  /\ cache = [k \in Keys |-> IF k \in RangeOf(plan) THEN FreshEntry(k, InitServer) ELSE EmptyEntry]
  /\ muts = <<>>
  /\ started = 0
  /\ lastEvent = NoEvent
  /\ last = NoLast
  /\ input = <<>>
  /\ output = <<>>

NextEvents ==
  \/ \E ev \in Events : HandleMessage(ev)
  \/ \E k \in Keys : FetchSucceed(k)
  \/ \E k \in Keys : OrphanReturn(k)

SpecEvents == InitEvents /\ [][NextEvents]_vars

(***************************************************************************)
(* Optimistic mutations over a page that mounts its queries in hook order  *)
(***************************************************************************)
MutationPlans ==
  { <<kOptList("all"), kOptAsset("east")>>,
    <<kOptList("all"), kOptHigh>>,
    <<kOptHigh, kOptList("all")>>,
    <<kAlertList, kAlertCritical>>,
    <<kOptList("all"), kSummary, kNodes>> }

InitMutations ==
  /\ server = InitServer
  /\ plan \in MutationPlans
  /\ order = <<>>
  /\ cache = [k \in Keys |-> EmptyEntry]
  /\ muts = <<>>
  /\ started = 0
  /\ lastEvent = NoEvent
  /\ last = NoLast
  /\ input = <<>>
  /\ output = <<>>

NextMutations ==
  \/ \E k \in Keys : Mount(k)
  \/ \E k \in Keys : Poll(k)
  \/ \E k \in Keys : FetchSucceed(k)
  \/ \E k \in Keys : OrphanReturn(k)
  \/ \E h \in Hooks, id \in OptIds \cup AlertIds : Mutate(h, id)
  \/ \E m \in 1..MaxMutations : MutationFail(m)
  \/ \E m \in 1..MaxMutations : MutationSucceed(m)

SpecMutations == InitMutations /\ [][NextMutations]_vars

(***************************************************************************)
(* Reads: fetch, retry, polling and invalidation of single queries         *)
(***************************************************************************)
ReadPlans == { <<kNodes>>, <<kSummary>>, <<kOptList("all")>>, <<kNodes, kSummary>> }

InitReads ==
  /\ server = InitServer
  /\ plan \in ReadPlans
  /\ order = <<>>
  /\ cache = [k \in Keys |-> EmptyEntry]
  /\ muts = <<>>
  /\ started = 0
  /\ lastEvent = NoEvent
  /\ last = NoLast
  /\ input = <<>>
  /\ output = <<>>

NextReads ==
  \/ \E k \in Keys : Mount(k)
  \/ \E k \in Keys : Read(k)
  \/ \E k \in Keys : Poll(k)
  \/ \E k \in Keys : StaleTimeElapsed(k)
  \/ InvalidateAllNodes
  \/ \E k \in Keys : FetchSucceed(k)
  \/ \E k \in Keys, ax \in AxiosErrors : FetchFail(k, ax)
  \/ \E k \in Keys : OrphanReturn(k)

SpecReads == InitReads /\ [][NextReads]_vars

(***************************************************************************)
(* Ingestion: the zod schemas of types/schemas.ts.  An optional field of a *)
(* raw payload is <<>> when absent and <<v>> when present.                 *)
(***************************************************************************)
MetricFields == {"maxCapacity", "businessTarget", "currentProduction", "deferment", "unit", "trend", "changePercent"}
NetworkNames == {"oil", "domesticGas", "exportGas", "flaredGas"}
FacilityTypes == {"flowstation", "compressor-station", "gas-plant", "terminal"}

DEFAULT_FLARED_GAS_METRICS ==
  [maxCapacity |-> 0, businessTarget |-> 0, currentProduction |-> 0, deferment |-> 0,
   unit |-> "mcf/d", trend |-> "stable", changePercent |-> 0]

Present(v) == <<v>>
Absent == <<>>
OrDefault(o, d) == IF o = Absent THEN d ELSE o[1]

\* z.number().nonnegative().optional().default(0)
NonnegativeOk(o) == o = Absent \/ o[1] >= 0

\* NetworkMetricsSchema
NetworkMetricsSchema(raw) ==
  [ok |-> /\ NonnegativeOk(raw.maxCapacity) /\ NonnegativeOk(raw.businessTarget)
          /\ NonnegativeOk(raw.currentProduction) /\ NonnegativeOk(raw.deferment)
          /\ (raw.trend = Absent \/ raw.trend[1] \in {"up", "down", "stable"}),
   value |-> [maxCapacity |-> OrDefault(raw.maxCapacity, 0),
              businessTarget |-> OrDefault(raw.businessTarget, 0),
              currentProduction |-> OrDefault(raw.currentProduction, 0),
              deferment |-> OrDefault(raw.deferment, 0),
              unit |-> OrDefault(raw.unit, "bbl/d"),
              trend |-> OrDefault(raw.trend, "stable"),
              changePercent |-> OrDefault(raw.changePercent, 0)]]

\* z.object({ oil, domesticGas, exportGas, flaredGas: NetworkMetricsSchema.optional() }).partial():
\* a key is in the result only when the payload has it
NetworksObject(raw) ==
  LET given == {n \in NetworkNames : raw[n] # Absent}
  IN [ok |-> \A n \in given : NetworkMetricsSchema(raw[n][1]).ok,
      value |-> [n \in given |-> NetworkMetricsSchema(raw[n][1]).value]]

\* a transform that passes the parsed networks through without the flared-gas default
FlaredGasPassThrough(existing) == existing

\* the .transform of FacilityNetworksSchema / UnitNetworksSchema
FlaredGasTransform(existing) ==
  LET flared == IF "flaredGas" \in DOMAIN existing THEN existing["flaredGas"] ELSE DEFAULT_FLARED_GAS_METRICS
      merged == [f \in MetricFields |-> IF f \in DOMAIN flared THEN flared[f] ELSE DEFAULT_FLARED_GAS_METRICS[f]]
  IN [n \in DOMAIN existing \cup {"flaredGas"} |-> IF n = "flaredGas" THEN merged ELSE existing[n]]

RawOfMetrics(m) == [f \in MetricFields |-> Present(m[f])]

\* .default({ flaredGas: DEFAULT_FLARED_GAS_METRICS })
DefaultNetworksInput ==
  [n \in NetworkNames |-> IF n = "flaredGas" THEN Present(RawOfMetrics(DEFAULT_FLARED_GAS_METRICS)) ELSE Absent]

\* FacilityNetworksSchema (and UnitNetworksSchema, which is the same schema)
FacilityNetworksSchema(optRaw) ==
  LET p == NetworksObject(OrDefault(optRaw, DefaultNetworksInput))
  IN [ok |-> p.ok, value |-> FlaredGasTransform(p.value)]

UnitNetworksSchema(optRaw) == FacilityNetworksSchema(optRaw)

\* FacilityRefSchema: type is required
FacilityRefSchema(raw) ==
  LET nets == FacilityNetworksSchema(raw.networks)
  IN [ok |-> raw.type # Absent /\ raw.type[1] \in FacilityTypes /\ nets.ok,
      value |-> [id |-> raw.id, type |-> OrDefault(raw.type, "none"), networks |-> nets.value]]

\* ProductionUnitSchema: the parse fails as a whole when any part fails
ProductionUnitSchema(raw) ==
  LET facs == [i \in 1..Len(raw.facilities) |-> FacilityRefSchema(raw.facilities[i])]
      nets == UnitNetworksSchema(raw.networks)
  IN [ok |-> nets.ok /\ \A i \in 1..Len(facs) : facs[i].ok,
      value |-> [facilities |-> [i \in 1..Len(facs) |-> facs[i].value], networks |-> nets.value]]

\* payloads
MaxFacilities == 2

AbsentMetrics == [f \in MetricFields |-> Absent]
OilInputs ==
  { [AbsentMetrics EXCEPT !.maxCapacity = Present(5), !.businessTarget = Present(2),
                          !.currentProduction = cp, !.deferment = d]
      : cp \in {Present(1), Present(3)}, d \in {Absent, Present(1), Present(-1)} }
FlaredInputs ==
  { [AbsentMetrics EXCEPT !.unit = u, !.deferment = d]
      : u \in {Absent, Present("mcf/d")}, d \in {Absent, Present(1)} }
NetworksInputs ==
  {Absent} \cup
  { Present([n \in NetworkNames |-> IF n = "oil" THEN o ELSE IF n = "flaredGas" THEN f ELSE Absent])
      : o \in {Absent} \cup {Present(x) : x \in OilInputs},
        f \in {Absent} \cup {Present(x) : x \in FlaredInputs} }
FacilityInputs ==
  [id : {"f"}, type : {Absent, Present("flowstation")}, networks : NetworksInputs]
UnitNetworksInputs ==
  { Absent,
    Present([n \in NetworkNames |-> Absent]),
    Present([n \in NetworkNames |-> IF n = "flaredGas" THEN Present(AbsentMetrics) ELSE Absent]),
    Present([n \in NetworkNames |-> IF n = "oil" THEN Present(AbsentMetrics) ELSE Absent]) }

SeqsUpTo(S, n) == UNION {[1..m -> S] : m \in 0..n}

UnitInputs == [facilities : SeqsUpTo(FacilityInputs, MaxFacilities), networks : UnitNetworksInputs]

\* assets is the cache entry ['assets', { period: '24h', includeUnits: true }]
NoAssets == [has |-> FALSE, by |-> "none", value |-> <<>>]
NotIngested == [done |-> FALSE, ok |-> FALSE, value |-> <<>>, assets |-> NoAssets]

\* queryFn of useAssets: AssetsResponseSchema.parse(response.data), here for one unit;
\* a parse that throws leaves the entry's data as it was
Ingest ==
  /\ ~output.done
  /\ LET p == ProductionUnitSchema(input)
     IN output' = [done |-> TRUE, ok |-> p.ok, value |-> IF p.ok THEN p.value ELSE <<>>,
                   assets |-> IF p.ok THEN [has |-> TRUE, by |-> "useAssets", value |-> p.value]
                              ELSE output.assets]
  /\ UNCHANGED <<input>>
  /\ UNCHANGED cacheVars

\* res.data as the server sent it: only the keys and fields the payload has
NetworksAsSent(optRaw) ==
  IF optRaw = Absent THEN <<>>
  ELSE [n \in {x \in NetworkNames : optRaw[1][x] # Absent} |->
          [f \in {y \in MetricFields : optRaw[1][n][1][y] # Absent} |-> optRaw[1][n][1][f][1]]]

UnitAsSent(raw) ==
  [facilities |-> [i \in 1..Len(raw.facilities) |->
                     [id |-> raw.facilities[i].id, type |-> OrDefault(raw.facilities[i].type, "none"),
                      networks |-> NetworksAsSent(raw.facilities[i].networks)]],
   networks |-> NetworksAsSent(raw.networks)]

\* SummaryStats.prefetchAssets: prefetchQuery on the same key with a queryFn that
\* returns res.data; it fetches when the entry holds no data
PrefetchAssets ==
  /\ ~output.assets.has
  /\ output' = [output EXCEPT !.assets = [has |-> TRUE, by |-> "prefetch", value |-> UnitAsSent(input)]]
  /\ UNCHANGED <<input>>
  /\ UNCHANGED cacheVars

InitIngest ==
  /\ input \in UnitInputs
  /\ output = NotIngested
  /\ server = InitServer
  /\ plan = <<>>
  /\ order = <<>>
  /\ cache = [k \in Keys |-> EmptyEntry]
  /\ muts = <<>>
  /\ started = 0
  /\ lastEvent = NoEvent
  /\ last = NoLast

NextIngest == Ingest \/ PrefetchAssets

SpecIngest == InitIngest /\ [][NextIngest]_vars

(***************************************************************************)
(* Gap drivers: the GET /api/gap-drivers handler.  A deferment is a        *)
(* fraction [n, d] so that Math.floor is not the identity; capacities are  *)
(* integers.  Comparisons of lost / capacity * 100 with a threshold are    *)
(* made exactly, as lost * 100 >= threshold * capacity.                    *)
(***************************************************************************)
NetworkKeyOrder == <<"oil", "domesticGas", "exportGas", "flaredGas">>
Frac(n, d) == [n |-> n, d |-> d]
Floor(q) == q.n \div q.d

toStream(key) ==
  IF key = "oil" THEN "oil"
  ELSE IF key = "domesticGas" THEN "domestic-gas"
  ELSE IF key = "exportGas" THEN "export-gas"
  ELSE "null"

DefaultOilCapacity == 5000
DefaultGasCapacity == 50000
TopDrivers == 12

\* lost = Math.max(0, Math.floor(metrics.deferment ?? 0))
LostOf(metrics) == Max(0, Floor(OrDefault(metrics.deferment, Frac(0, 1))))

\* capacity = metrics.maxCapacity ?? (key === 'oil' ? 5000 : 50000)
CapacityOf(key, metrics) ==
  OrDefault(metrics.maxCapacity, IF key = "oil" THEN DefaultOilCapacity ELSE DefaultGasCapacity)

\* percentage >= t, with percentage = capacity > 0 ? (lost / capacity) * 100 : 0
PercentageAtLeast(lost, capacity, t) ==
  IF capacity > 0 THEN lost * 100 >= t * capacity ELSE 0 >= t

\* the same thresholds compared strictly
PriorityStrict(lost, capacity) ==
  IF capacity > 0 /\ lost * 100 > 30 * capacity THEN "critical"
  ELSE IF capacity > 0 /\ lost * 100 > 20 * capacity THEN "high"
  ELSE IF capacity > 0 /\ lost * 100 > 10 * capacity THEN "medium"
  ELSE "low"

\* priority bucketing
PriorityOf(lost, capacity) ==
  IF PercentageAtLeast(lost, capacity, 30) THEN "critical"
  ELSE IF PercentageAtLeast(lost, capacity, 20) THEN "high"
  ELSE IF PercentageAtLeast(lost, capacity, 10) THEN "medium"
  ELSE "low"

gapTypeOf(type) ==
  IF type = "compressor-station" THEN "maintenance"
  ELSE IF type = "gas-plant" THEN "efficiency"
  ELSE "constraint"

\* Number(percentage.toFixed(1)), in tenths of a percent
PercentageTenths(lost, capacity) ==
  IF capacity > 0 THEN (2 * lost * 1000 + capacity) \div (2 * capacity) ELSE 0

\* 12 + Math.floor(percentage)
TotalHours(lost, capacity) ==
  12 + (IF capacity > 0 THEN (lost * 100) \div capacity ELSE 0)

\* one pushed driver; fac is the facility's position in the dataset, which is its id
DriverOf(f, fac, key) ==
  LET metrics == f.networks[key][1]
      lost == LostOf(metrics)
      capacity == CapacityOf(key, metrics)
  IN [id |-> <<"gap", f.assetId, f.unitId, fac, key>>,
      nodeId |-> fac,
      gapType |-> gapTypeOf(f.type),
      lostProduction |-> lost,
      unit |-> OrDefault(metrics.unit, IF key = "oil" THEN "bbl/d" ELSE "mcf/d"),
      percentage |-> PercentageTenths(lost, capacity),
      affectedStreams |-> <<toStream(key)>>,
      totalHours |-> TotalHours(lost, capacity),
      priority |-> PriorityOf(lost, capacity),
      status |-> "active"]

\* a skip test that lets flaredGas through
SkippedZeroOnly(f, key) ==
  \/ f.networks[key] = Absent
  \/ LostOf(f.networks[key][1]) = 0

\* if (!lost || !stream) continue
Skipped(f, key) ==
  \/ f.networks[key] = Absent
  \/ LostOf(f.networks[key][1]) = 0
  \/ toStream(key) = "null"

RECURSIVE FacilityDrivers(_, _, _)
FacilityDrivers(f, fac, j) ==
  IF j > Len(NetworkKeyOrder) THEN <<>>
  ELSE (IF Skipped(f, NetworkKeyOrder[j]) THEN <<>> ELSE <<DriverOf(f, fac, NetworkKeyOrder[j])>>)
       \o FacilityDrivers(f, fac, j + 1)

\* the nested loops over assets, units and facilities
RECURSIVE CollectDrivers(_, _, _)
CollectDrivers(facs, assetFilter, i) ==
  IF i > Len(facs) THEN <<>>
  ELSE (IF assetFilter # Absent /\ facs[i].assetId # assetFilter[1]
        THEN <<>>
        ELSE FacilityDrivers(facs[i], i, 1))
       \o CollectDrivers(facs, assetFilter, i + 1)

\* drivers.sort((a, b) => b.impact.lostProduction - a.impact.lostProduction): stable
InsertDriver(sorted, d) ==
  LET before == Cardinality({j \in 1..Len(sorted) : sorted[j].lostProduction >= d.lostProduction})
  IN SubSeq(sorted, 1, before) \o <<d>> \o SubSeq(sorted, before + 1, Len(sorted))

RECURSIVE SortDrivers(_)
SortDrivers(ds) ==
  IF ds = <<>> THEN <<>>
  ELSE InsertDriver(SortDrivers(SubSeq(ds, 1, Len(ds) - 1)), ds[Len(ds)])

GapDriversHandler(inp) ==
  LET drivers == SortDrivers(CollectDrivers(inp.facilities, inp.assetFilter, 1))
  IN SubSeq(drivers, 1, Min(Len(drivers), TopDrivers))

\* the drivers array once the loops are done, before the sort and the cap
PushedDrivers(inp) == CollectDrivers(inp.facilities, inp.assetFilter, 1)

\* datasets
MaxGapFacilities == 2

GapMetrics(c, q) == [maxCapacity |-> c, deferment |-> q, unit |-> Absent]
OilGapInputs ==
  { GapMetrics(Present(5), Present(Frac(3, 2))),
    GapMetrics(Present(5), Present(Frac(1, 1))),
    GapMetrics(Present(10), Present(Frac(1, 1))),
    GapMetrics(Present(10), Present(Frac(2, 1))),
    GapMetrics(Present(10), Present(Frac(3, 1))),
    GapMetrics(Present(0), Present(Frac(4, 1))),
    GapMetrics(Present(10), Absent),
    GapMetrics(Present(10), Present(Frac(1, 2))),
    GapMetrics(Absent, Present(Frac(1500, 1))) }
GasGapInput == [maxCapacity |-> Absent, deferment |-> Present(Frac(10000, 1)), unit |-> Present("mcf/d")]
FlaredGapInput == [maxCapacity |-> Present(10), deferment |-> Present(Frac(5, 1)), unit |-> Present("mcf/d")]
GapNetworksInputs ==
  { [key \in {"oil", "domesticGas", "exportGas", "flaredGas"} |->
       IF key = "oil" THEN o
       ELSE IF key = other THEN Present(IF key = "flaredGas" THEN FlaredGapInput ELSE GasGapInput)
       ELSE Absent]
      : o \in {Absent} \cup {Present(m) : m \in OilGapInputs},
        other \in {"none", "exportGas", "flaredGas"} }
GapFacilityInputs ==
  [assetId : {"east", "west"}, unitId : {"u1"}, type : {"flowstation", "gas-plant"},
   networks : GapNetworksInputs]
GapInputs ==
  [assetFilter : {Absent, Present("east"), Present("west")},
   facilities : SeqsUpTo(GapFacilityInputs, MaxGapFacilities)]

\* datasets of many facilities that each lose production on all three streams
MaxWideFacilities == 5

WideFacility(d) ==
  [assetId |-> "east", unitId |-> "u1", type |-> "flowstation",
   networks |-> [key \in {"oil", "domesticGas", "exportGas", "flaredGas"} |->
                   IF key = "flaredGas" THEN Absent
                   ELSE Present(GapMetrics(Present(10), Present(Frac(d, 1))))]]
WideGapInputs ==
  [assetFilter : {Absent},
   facilities : SeqsUpTo({WideFacility(1), WideFacility(3)}, MaxWideFacilities)]

\* GapDriversTable.processedData with the default sort (impact, desc), no stream
\* filter and no search term
FilterByFacility(ds, facilityIds) ==
  IF facilityIds = Absent \/ facilityIds[1] = {} THEN ds
  ELSE SelectSeq(ds, LAMBDA d : d.nodeId \in facilityIds[1])

ProcessedData(source, facilityIds, maxRows) ==
  LET filtered == SortDrivers(FilterByFacility(source, facilityIds))
  IN SubSeq(filtered, 1, Min(Len(filtered), maxRows))

MaxRowsChoices == {2, 20}
FacilityIdsChoices(inp) ==
  {Absent} \cup {Present({i}) : i \in {1, Len(inp.facilities)} \ {0}}

NotComputed ==
  [done |-> FALSE, pushed |-> <<>>, drivers |-> <<>>,
   rendered |-> FALSE, facilityIds |-> Absent, maxRows |-> 0, rows |-> <<>>]

\* GET /api/gap-drivers
GetGapDrivers ==
  /\ ~output.done
  /\ output' = [output EXCEPT !.done = TRUE, !.pushed = PushedDrivers(input),
                                !.drivers = GapDriversHandler(input)]
  /\ UNCHANGED <<input>>
  /\ UNCHANGED cacheVars

\* GapDriversTable renders the response of useGapDrivers(assetParam)
RenderTable(facilityIds, maxRows) ==
  /\ output.done
  /\ ~output.rendered
  /\ output' = [output EXCEPT !.rendered = TRUE, !.facilityIds = facilityIds, !.maxRows = maxRows,
                                !.rows = ProcessedData(output.drivers, facilityIds, maxRows)]
  /\ UNCHANGED <<input>>
  /\ UNCHANGED cacheVars

InitGap ==
  /\ input \in GapInputs \cup WideGapInputs
  /\ output = NotComputed
  /\ server = InitServer
  /\ plan = <<>>
  /\ order = <<>>
  /\ cache = [k \in Keys |-> EmptyEntry]
  /\ muts = <<>>
  /\ started = 0
  /\ lastEvent = NoEvent
  /\ last = NoLast

NextGap ==
  \/ GetGapDrivers
  \/ \E facilityIds \in FacilityIdsChoices(input), maxRows \in MaxRowsChoices :
       RenderTable(facilityIds, maxRows)

SpecGap == InitGap /\ [][NextGap]_vars

(***************************************************************************)
(* Terminal and cargo hooks (hooks/useHubPerformance.ts).  In SpecTerminal  *)
(* output is the query cache restricted to the keys of these hooks and     *)
(* input is the state of the cargo-schedule mutation.                      *)
(***************************************************************************)
TerminalId == {"bonny", "forcados", "sea-eagle"}

kTerminalOperations(terminalId) == <<Str("terminalOperations"), Str(terminalId)>>
kCargoSchedule == <<Str("cargo"), Str("schedule"), [timeframe |-> "30d"]>>
HubKeys == {kTerminalOperations(t) : t \in TerminalId} \cup {kCargoSchedule}

HubData == [shape |-> "response", items |-> NoItems, summary |-> NoSummary]

\* useUpdateCargoSchedule.onSuccess
CargoScheduleFilters == << <<Str("cargo")>>, <<Str("terminal-operations")>> >>

HubInvalidateQueries(c, fk) ==
  [k \in HubKeys |-> IF c[k].present /\ PartialMatchKey(k, fk) THEN QueryInvalidate(c[k]) ELSE c[k]]

RECURSIVE HubInvalidateAll(_, _)
HubInvalidateAll(c, fks) ==
  IF fks = <<>> THEN c ELSE HubInvalidateAll(HubInvalidateQueries(c, Head(fks)), Tail(fks))

NoCargoMutation == [status |-> "idle", calls |-> 0]

HubMount(k) ==
  /\ ~output[k].present
  /\ output' = [output EXCEPT ![k] = StartFetch([EmptyEntry EXCEPT !.present = TRUE])]
  /\ last' = NoLast
  /\ UNCHANGED <<cache, order, plan, server, muts, started, lastEvent, input>>

\* refetchInterval: 60000
HubPoll(k) ==
  /\ output[k].present
  /\ output[k].fetch = "idle"
  /\ output' = [output EXCEPT ![k] = QueryFetch(@, FALSE)]
  /\ last' = NoLast
  /\ UNCHANGED <<cache, order, plan, server, muts, started, lastEvent, input>>

HubFetchSucceed(k) ==
  /\ output[k].fetch = "inflight"
  /\ output' = [output EXCEPT ![k] = [@ EXCEPT !.data = HubData, !.stale = FALSE,
                                                !.fetch = "idle", !.error = "none",
                                                !.byFetch = TRUE]]
  /\ last' = NoLast
  /\ UNCHANGED <<cache, order, plan, server, muts, started, lastEvent, input>>

HubOrphanReturn(k) ==
  /\ output[k].orphans > 0
  /\ output' = [output EXCEPT ![k].orphans = @ - 1]
  /\ last' = NoLast
  /\ UNCHANGED <<cache, order, plan, server, muts, started, lastEvent, input>>

\* staleTime: 30000 (terminal operations), 60000 (cargo schedule)
HubStaleTimeElapsed(k) ==
  /\ output[k].present
  /\ output[k].data # NoData
  /\ ~output[k].stale
  /\ output' = [output EXCEPT ![k].stale = TRUE]
  /\ last' = NoLast
  /\ UNCHANGED <<cache, order, plan, server, muts, started, lastEvent, input>>

\* useUpdateCargoSchedule().mutate
UpdateCargoSchedule ==
  /\ input.status = "idle"
  /\ input' = [status |-> "pending", calls |-> 1]
  /\ last' = NoLast
  /\ UNCHANGED <<cache, order, plan, server, muts, started, lastEvent, output>>

\* the PATCH fails: one retry (mutations.retry), then the mutation ends in error
UpdateCargoScheduleFail ==
  /\ input.status = "pending"
  /\ input' = IF input.calls <= MutationRetry
              THEN [input EXCEPT !.calls = @ + 1]
              ELSE NoCargoMutation
  /\ last' = NoLast
  /\ UNCHANGED <<cache, order, plan, server, muts, started, lastEvent, output>>

\* the PATCH succeeds: onSuccess
UpdateCargoScheduleSucceed ==
  /\ input.status = "pending"
  /\ input' = NoCargoMutation
  /\ output' = HubInvalidateAll(output, CargoScheduleFilters)
  /\ last' = [NoLast EXCEPT !.op = "success", !.hook = "updateCargoSchedule"]
  /\ UNCHANGED <<cache, order, plan, server, muts, started, lastEvent>>

InitTerminal ==
  /\ input = NoCargoMutation
  /\ output = [k \in HubKeys |-> EmptyEntry]
  /\ server = InitServer
  /\ plan = <<>>
  /\ order = <<>>
  /\ cache = [k \in Keys |-> EmptyEntry]
  /\ muts = <<>>
  /\ started = 0
  /\ lastEvent = NoEvent
  /\ last = NoLast

NextTerminal ==
  \/ \E k \in HubKeys : HubMount(k)
  \/ \E k \in HubKeys : HubPoll(k)
  \/ \E k \in HubKeys : HubFetchSucceed(k)
  \/ \E k \in HubKeys : HubOrphanReturn(k)
  \/ \E k \in HubKeys : HubStaleTimeElapsed(k)
  \/ UpdateCargoSchedule
  \/ UpdateCargoScheduleFail
  \/ UpdateCargoScheduleSucceed

SpecTerminal == InitTerminal /\ [][NextTerminal]_vars

(***************************************************************************)
(* Gap-driver ids.  A string is the sequence of its maximal hyphen-free    *)
(* pieces, so joining strings with "-" is the concatenation of their       *)
(* pieces, and two joined strings are equal exactly when their piece       *)
(* sequences are.  MockGapFacilities is the handler's facility table with  *)
(* the network keys each facility carries (every deferment of the table is *)
(* positive).  In SpecGapId input is a pair of (facility, network) rows of *)
(* the table and output holds the ids computed by successive requests.     *)
(***************************************************************************)
MockUnitIds ==
  <<  <<"east", "production", "unit", "01">>, <<"east", "production", "unit", "02">>,
      <<"west", "production", "unit", "01">>, <<"west", "production", "unit", "02">>  >>
MockUnitNumbers == <<"001", "002", "101", "201">>

MockFacility(u, kind) ==
  [assetId |-> <<MockUnitIds[u][1]>>,
   unitId |-> MockUnitIds[u],
   id |-> <<kind, MockUnitNumbers[u]>>,
   keys |-> IF kind = "flowstation" THEN {"oil", "flaredGas"}
            ELSE {"domesticGas", "exportGas", "flaredGas"}]

MockGapFacilities ==
  <<MockFacility(1, "flowstation"), MockFacility(1, "compressor"), MockFacility(1, "gasplant"),
    MockFacility(2, "flowstation"), MockFacility(2, "compressor"), MockFacility(2, "gasplant"),
    MockFacility(3, "flowstation"), MockFacility(3, "compressor"), MockFacility(3, "gasplant"),
    MockFacility(4, "flowstation"), MockFacility(4, "compressor"), MockFacility(4, "gasplant")>>

\* an id template that leaves the facility out
GapDriverIdNoFacility(asset, unit, fac, key) == <<"gap">> \o asset \o unit \o <<key>>

\* `gap-${asset.assetId}-${unit.unitId}-${fac.id}-${key}`
GapDriverId(asset, unit, fac, key) == <<"gap">> \o asset \o unit \o fac \o <<key>>

\* the (facility, network) pairs for which a driver is pushed
GapRows ==
  {r \in [fac : 1..Len(MockGapFacilities), key : {"oil", "domesticGas", "exportGas", "flaredGas"}] :
     r.key \in MockGapFacilities[r.fac].keys /\ toStream(r.key) # "null"}

IdOfRow(r) ==
  LET f == MockGapFacilities[r.fac]
  IN GapDriverId(f.assetId, f.unitId, f.id, r.key)

MaxRequests == 2

NoIds == [a |-> <<>>, b |-> <<>>]

\* one GET /api/gap-drivers: the ids of the two rows in its response
RequestGapDrivers ==
  /\ Len(output.a) < MaxRequests
  /\ output' = [a |-> Append(output.a, IdOfRow(input.a)), b |-> Append(output.b, IdOfRow(input.b))]
  /\ UNCHANGED <<input, cache, order, plan, server, muts, started, lastEvent, last>>

InitGapId ==
  /\ input \in [a : GapRows, b : GapRows]
  /\ output = NoIds
  /\ server = InitServer
  /\ plan = <<>>
  /\ order = <<>>
  /\ cache = [k \in Keys |-> EmptyEntry]
  /\ muts = <<>>
  /\ started = 0
  /\ lastEvent = NoEvent
  /\ last = NoLast

NextGapId == RequestGapDrivers

SpecGapId == InitGapId /\ [][NextGapId]_vars

(***************************************************************************)
(* useWebSocket: the life of the event subscription.  In SpecSocket input  *)
(* is the configuration (build mode and reconnect options) and output is   *)
(* the hook: its React state (isConnected, isConnecting, error), its refs  *)
(* (reconnectAttempts; refPending tells that reconnectTimeoutRef holds a   *)
(* timer that has not fired; current is the socket wsRef points to), the   *)
(* sockets it created, and the timers no ref points to any more (leaked    *)
(* reconnect timers, openTimers of the mock).  A socket is "connecting",   *)
(* "open", "closingUnclean" (close() called before it opened), or          *)
(* "closingClean" (close() called while open), "closed"; the mock socket   *)
(* is its interval: "interval" or "cleared".  Handlers stay attached to a  *)
(* socket after close().  Every connect that creates a socket belongs to a *)
(* render with enabled = true, and so do the handlers and timers of that   *)
(* socket.  sinceOpen counts the reconnects scheduled since the last       *)
(* handleOpen; cleaned tells that the effect's cleanup has run and the     *)
(* effect has not run again.  State updates of an unmounted component are  *)
(* dropped.                                                                *)
(***************************************************************************)
MaxSockets == 3
MaxAttemptsChoices == {1, 2}

SocketConfigs ==
  [mode : {"development", "production"}, reconnectEnabled : BOOLEAN, maxAttempts : MaxAttemptsChoices]

NoSocketHook ==
  [phase |-> "initial", enabled |-> TRUE, cleaned |-> FALSE,
   isConnected |-> FALSE, isConnecting |-> FALSE, error |-> "none",
   reconnectAttempts |-> 0, sinceOpen |-> 0, refPending |-> FALSE, leaked |-> 0,
   sockets |-> <<>>, current |-> 0, openTimers |-> 0]

\* setState(prev => ({ ...prev, isConnected, isConnecting, error }))
SetConnectionState(o, connected, connecting, error) ==
  IF o.phase = "mounted"
  THEN [o EXCEPT !.isConnected = connected, !.isConnecting = connecting, !.error = error]
  ELSE o

HandleOpen(o) ==
  [SetConnectionState(o, TRUE, FALSE, "none") EXCEPT !.reconnectAttempts = 0, !.sinceOpen = 0]

\* a reconnect test that allows one attempt more
ShouldReconnectInclusive(cfg, wasClean, attempts) ==
  cfg.reconnectEnabled /\ ~wasClean /\ attempts <= cfg.maxAttempts

\* reconnectOptions.enabled && !event.wasClean && reconnectAttempts.current < maxAttempts
ShouldReconnect(cfg, wasClean, attempts) ==
  cfg.reconnectEnabled /\ ~wasClean /\ attempts < cfg.maxAttempts

HandleClose(o, cfg, wasClean) ==
  LET s == SetConnectionState(o, FALSE, FALSE, IF wasClean THEN "none" ELSE "closed")
  IN IF ShouldReconnect(cfg, wasClean, o.reconnectAttempts)
     THEN [s EXCEPT !.reconnectAttempts = @ + 1, !.sinceOpen = @ + 1,
                    !.leaked = IF o.refPending THEN @ + 1 ELSE @, !.refPending = TRUE]
     ELSE s

HandleError(o) == SetConnectionState(o, o.isConnected, FALSE, "error")

\* connect(), with startMockWebSocket in development
Connect(o, cfg, enabled) ==
  IF ~enabled \/ (o.current # 0 /\ o.sockets[o.current] = "connecting") THEN o
  ELSE LET s == SetConnectionState(o, o.isConnected, TRUE, "none")
       IN IF cfg.mode = "development"
          THEN [s EXCEPT !.openTimers = @ + 1, !.sockets = Append(@, "interval"),
                         !.current = Len(o.sockets) + 1]
          ELSE [s EXCEPT !.sockets = Append(@, "connecting"), !.current = Len(o.sockets) + 1]

\* WebSocket.close(), or clearInterval for the mock
CloseOf(st) ==
  CASE st = "connecting" -> "closingUnclean"
    [] st = "open" -> "closingClean"
    [] st = "interval" -> "cleared"
    [] OTHER -> st

CloseCurrent(o) ==
  IF o.current = 0 THEN o ELSE [o EXCEPT !.sockets[o.current] = CloseOf(@)]

\* the effect's cleanup
Cleanup(o) == [CloseCurrent([o EXCEPT !.refPending = FALSE]) EXCEPT !.cleaned = TRUE]

CanConnect == Len(output.sockets) < MaxSockets

\* the effect runs after the first render
MountSocket ==
  /\ output.phase = "initial"
  /\ output' = Connect([output EXCEPT !.phase = "mounted"], input, TRUE)
  /\ last' = [NoLast EXCEPT !.op = "effect"]
  /\ UNCHANGED <<cache, order, plan, server, muts, started, lastEvent, input>>

\* enabled becomes false: the cleanup runs, the effect body does nothing
Disable ==
  /\ output.phase = "mounted"
  /\ output.enabled
  /\ output' = [Cleanup(output) EXCEPT !.enabled = FALSE]
  /\ last' = [NoLast EXCEPT !.op = "cleanup"]
  /\ UNCHANGED <<cache, order, plan, server, muts, started, lastEvent, input>>

\* enabled becomes true again: the effect runs
Enable ==
  /\ output.phase = "mounted"
  /\ ~output.enabled
  /\ CanConnect
  /\ output' = Connect([output EXCEPT !.enabled = TRUE, !.cleaned = FALSE], input, TRUE)
  /\ last' = [NoLast EXCEPT !.op = "effect"]
  /\ UNCHANGED <<cache, order, plan, server, muts, started, lastEvent, input>>

Unmount ==
  /\ output.phase = "mounted"
  /\ output' = [(IF output.enabled THEN Cleanup(output) ELSE output) EXCEPT !.phase = "unmounted"]
  /\ last' = [NoLast EXCEPT !.op = "cleanup"]
  /\ UNCHANGED <<cache, order, plan, server, muts, started, lastEvent, input>>

\* reconnect(), called by the component that uses the hook
ManualReconnect ==
  /\ output.phase = "mounted"
  /\ CanConnect
  /\ output' = Connect([CloseCurrent(output) EXCEPT !.reconnectAttempts = 0], input, output.enabled)
  /\ last' = [NoLast EXCEPT !.op = "reconnect"]
  /\ UNCHANGED <<cache, order, plan, server, muts, started, lastEvent, input>>

\* a timer set by handleClose fires: connect()
ReconnectTimerFire ==
  /\ CanConnect
  /\ \/ /\ output.refPending
        /\ output' = Connect([output EXCEPT !.refPending = FALSE], input, TRUE)
     \/ /\ output.leaked > 0
        /\ output' = Connect([output EXCEPT !.leaked = @ - 1], input, TRUE)
  /\ last' = [NoLast EXCEPT !.op = "timer"]
  /\ UNCHANGED <<cache, order, plan, server, muts, started, lastEvent, input>>

\* the mock's setTimeout(() => handleOpen(), 1000)
MockOpenTimerFire ==
  /\ output.openTimers > 0
  /\ output' = HandleOpen([output EXCEPT !.openTimers = @ - 1])
  /\ last' = [NoLast EXCEPT !.op = "open"]
  /\ UNCHANGED <<cache, order, plan, server, muts, started, lastEvent, input>>

\* the three events of the mock's setInterval callback
MockEvents ==
  {[id |-> 0, type |-> "new_optimisation", hasAssets |-> TRUE, affectedAssets |-> <<"east">>],
   [id |-> 0, type |-> "performance_change", hasAssets |-> TRUE, affectedAssets |-> <<"west">>],
   [id |-> 0, type |-> "system_alert", hasAssets |-> FALSE, affectedAssets |-> <<>>]}

\* handleMessage as seen from the hook: the event is kept, the error is cleared,
\* the cache is invalidated
SocketHandleMessage(ev) ==
  /\ output' = SetConnectionState(output, output.isConnected, output.isConnecting, "none")
  /\ lastEvent' = [ev EXCEPT !.id = 1 - lastEvent.id]
  /\ cache' = InvalidateAll(cache, EventFilters(ev))
  /\ last' = [NoLast EXCEPT !.op = "event"]
  /\ UNCHANGED <<order, plan, server, muts, started, input>>

MockIntervalTick(i) ==
  /\ output.sockets[i] = "interval"
  /\ \E ev \in MockEvents : SocketHandleMessage(ev)

SocketMessage(i) ==
  /\ output.sockets[i] = "open"
  /\ \E ev \in MockEvents : SocketHandleMessage(ev)

\* onopen
SocketOpened(i) ==
  /\ output.sockets[i] = "connecting"
  /\ output' = HandleOpen([output EXCEPT !.sockets[i] = "open"])
  /\ last' = [NoLast EXCEPT !.op = "open"]
  /\ UNCHANGED <<cache, order, plan, server, muts, started, lastEvent, input>>

\* the connection fails or is lost: onerror, then onclose with wasClean = false
SocketFailed(i) ==
  /\ output.sockets[i] \in {"connecting", "open"}
  /\ LET o == HandleError([output EXCEPT !.sockets[i] = "closed"])
     IN /\ output' = HandleClose(o, input, FALSE)
        /\ last' = [NoLast EXCEPT !.op = "close", !.found = "unclean", !.status = output.sinceOpen,
                                  !.retried = ShouldReconnect(input, FALSE, o.reconnectAttempts)]
  /\ UNCHANGED <<cache, order, plan, server, muts, started, lastEvent, input>>

\* the server closes the connection: onclose with wasClean = true
ServerClosed(i) ==
  /\ output.sockets[i] = "open"
  /\ output' = HandleClose([output EXCEPT !.sockets[i] = "closed"], input, TRUE)
  /\ last' = [NoLast EXCEPT !.op = "close", !.found = "clean", !.status = output.sinceOpen,
                            !.retried = ShouldReconnect(input, TRUE, output.reconnectAttempts)]
  /\ UNCHANGED <<cache, order, plan, server, muts, started, lastEvent, input>>

\* the close event of a socket that close() was called on
CloseEventArrives(i) ==
  /\ output.sockets[i] \in {"closingUnclean", "closingClean"}
  /\ LET wasClean == output.sockets[i] = "closingClean"
     IN /\ output' = HandleClose([output EXCEPT !.sockets[i] = "closed"], input, wasClean)
        /\ last' = [NoLast EXCEPT !.op = "close",
                                  !.found = IF wasClean THEN "clean" ELSE "unclean",
                                  !.status = output.sinceOpen,
                                  !.retried = ShouldReconnect(input, wasClean, output.reconnectAttempts)]
  /\ UNCHANGED <<cache, order, plan, server, muts, started, lastEvent, input>>

InitSocket ==
  /\ input \in SocketConfigs
  /\ output = NoSocketHook
  /\ server = InitServer
  /\ plan = <<>>
  /\ order = <<>>
  /\ cache = [k \in Keys |-> EmptyEntry]
  /\ muts = <<>>
  /\ started = 0
  /\ lastEvent = NoEvent
  /\ last = NoLast

NextSocket ==
  \/ MountSocket
  \/ Disable
  \/ Enable
  \/ Unmount
  \/ ManualReconnect
  \/ ReconnectTimerFire
  \/ MockOpenTimerFire
  \/ \E i \in 1..Len(output.sockets) : MockIntervalTick(i)
  \/ \E i \in 1..Len(output.sockets) : SocketMessage(i)
  \/ \E i \in 1..Len(output.sockets) : SocketOpened(i)
  \/ \E i \in 1..Len(output.sockets) : SocketFailed(i)
  \/ \E i \in 1..Len(output.sockets) : ServerClosed(i)
  \/ \E i \in 1..Len(output.sockets) : CloseEventArrives(i)

SpecSocket == InitSocket /\ [][NextSocket]_vars

(***************************************************************************)
(* Claims                                                                  *)
(***************************************************************************)

\* C1 (as stated): once the rollback of a failed optimistic mutation has run, every
\* entry of its snapshot holds exactly the value it had when the snapshot was taken.
C1_RollbackRestoresEverySnapshot ==
  last.op = "rollback" =>
    \A k \in DOMAIN last.context : cache[k].data = last.context[k]

\* C1 (amended): once the rollback of a failed optimistic mutation has run, every
\* entry that held data when the snapshot was taken holds exactly that data again;
\* an entry that was snapshotted without data is not written by the rollback.
C1_RollbackRestoresSnapshotData ==
  last.op = "rollback" =>
    \A k \in DOMAIN last.context :
      last.context[k] # NoData => cache[k].data = last.context[k]

\* a rollback has run over a snapshot of two entries that both held data
C1_Witness ==
  /\ last.op = "rollback"
  /\ Cardinality({k \in DOMAIN last.context : last.context[k] # NoData}) >= 2

\* C2: right after the optimistic acknowledge of optimisation X, X is "acknowledged"
\* in every cached optimisations collection that contains X, under whatever key.
C2_AcknowledgeUpdatesEveryCollection ==
  (last.op = "mutate" /\ last.hook = "acknowledgeOptimisation") =>
    \A k \in OptKeys :
      last.id \in DOMAIN cache[k].data.items => cache[k].data.items[last.id] = "acknowledged"

\* C3: the state-changing network call of a mutation is issued at most once.
C3_MutationCalledAtMostOnce ==
  \A m \in 1..Len(muts) : muts[m].calls <= 1

\* C4: a fetch that fails with a 4xx status is not retried: one network call was
\* made for the read and the error is surfaced.
C4_ClientErrorNotRetried ==
  (last.op = "fetchFail" /\ last.status >= 400 /\ last.status < 500) =>
    /\ ~last.retried
    /\ cache[last.key].calls = 1
    /\ cache[last.key].error # "none"

\* C5: at most one network call per cache key is outstanding at any time.
OutstandingCalls(k) == (IF cache[k].fetch = "inflight" THEN 1 ELSE 0) + cache[k].orphans
C5_OneOutstandingFetchPerKey ==
  \A k \in Keys : OutstandingCalls(k) <= 1

\* C6: a constraint_alert event that names asset west marks the alerts and summary
\* entries stale and leaves every optimisations entry as it was.
C6_AlertEventScope ==
  [][(lastEvent'.id # lastEvent.id /\ lastEvent'.type = "constraint_alert"
        /\ lastEvent'.hasAssets /\ lastEvent'.affectedAssets = <<"west">>) =>
       /\ \A k \in AlertKeys \cup SummaryKeys : cache[k].present => cache'[k].stale
       /\ \A k \in OptKeys : cache'[k] = cache[k]]_vars

\* C7: an optimisation event whose affected asset is east never marks stale an
\* optimisations entry whose asset filter is west.
C7_EastEventLeavesWest ==
  [][(lastEvent'.id # lastEvent.id /\ lastEvent'.type \in {"new_optimisation", "optimisation_update"}
        /\ lastEvent'.hasAssets /\ lastEvent'.affectedAssets = <<"east">>) =>
       \A k \in OptKeys :
         (AssetFilterOf(k) = "west" /\ ~cache[k].stale) => ~cache'[k].stale]_vars

\* C8: every ProductionUnit and every Facility of an accepted payload has a
\* flaredGas network entry, and where the payload gave none (no networks object,
\* or a networks object without flaredGas) that entry is the all-zero default
\* { 0, 0, 0, 0, "mcf/d", "stable", 0 }.
OmitsFlaredGas(optRaw) == optRaw = Absent \/ optRaw[1]["flaredGas"] = Absent
FlaredGasExposed(nets, optRaw) ==
  /\ "flaredGas" \in DOMAIN nets
  /\ OmitsFlaredGas(optRaw) => nets["flaredGas"] = DEFAULT_FLARED_GAS_METRICS
C8_FlaredGasAlwaysPresent ==
  (output.done /\ output.ok) =>
    /\ FlaredGasExposed(output.value.networks, input.networks)
    /\ \A i \in 1..Len(output.value.facilities) :
         FlaredGasExposed(output.value.facilities[i].networks, input.facilities[i].networks)

\* an accepted payload whose unit omits flaredGas and that has two facilities, one
\* without a networks object and one with oil but no flaredGas
C8_Witness ==
  /\ output.done /\ output.ok
  /\ OmitsFlaredGas(input.networks)
  /\ Len(input.facilities) = 2
  /\ input.facilities[1].networks = Absent
  /\ input.facilities[2].networks # Absent
  /\ input.facilities[2].networks[1]["oil"] # Absent
  /\ input.facilities[2].networks[1]["flaredGas"] = Absent

\* C9: after normalization every network entry of every Facility has
\* deferment = max(0, businessTarget - currentProduction), whatever deferment the
\* feed supplied.
C9_DefermentRecomputed ==
  (output.done /\ output.ok) =>
    \A i \in 1..Len(output.value.facilities) :
      \A n \in DOMAIN output.value.facilities[i].networks :
        LET m == output.value.facilities[i].networks[n]
        IN m.deferment = Max(0, m.businessTarget - m.currentProduction)

\* C10 (as stated): every gap driver has priority critical / high / medium / low by
\* the thresholds 30 / 20 / 10 on percentage = deferment / maxCapacity * 100
\* (0 when maxCapacity is 0), for the drivers whose network supplies maxCapacity.
SourceMetrics(d) == input.facilities[d.id[4]].networks[d.id[5]][1]
StatedAtLeast(q, c, t) == IF c > 0 THEN q.n * 100 >= t * c * q.d ELSE 0 >= t
StatedPriority(q, c) ==
  IF StatedAtLeast(q, c, 30) THEN "critical"
  ELSE IF StatedAtLeast(q, c, 20) THEN "high"
  ELSE IF StatedAtLeast(q, c, 10) THEN "medium"
  ELSE "low"
RequestedFacilities ==
  {i \in 1..Len(input.facilities) :
     input.assetFilter = Absent \/ input.facilities[i].assetId = input.assetFilter[1]}
HasPushedDriver(i, key) ==
  \E j \in 1..Len(output.pushed) : output.pushed[j].id[4] = i /\ output.pushed[j].id[5] = key
DefermentOf(i, key) ==
  IF input.facilities[i].networks[key] = Absent THEN Frac(0, 1)
  ELSE OrDefault(input.facilities[i].networks[key][1].deferment, Frac(0, 1))
KeyRank(key) ==
  CASE key = "domesticGas" -> 1 [] key = "exportGas" -> 2 [] key = "flaredGas" -> 3 [] key = "oil" -> 4
AssetRank(a) == IF a = "east" THEN 1 ELSE 2
IdBefore(a, b) ==
  \/ AssetRank(a[2]) < AssetRank(b[2])
  \/ a[2] = b[2] /\ a[4] < b[4]
  \/ a[2] = b[2] /\ a[4] = b[4] /\ KeyRank(a[5]) < KeyRank(b[5])
EligibleFor(facilityIds) == FilterByFacility(output.pushed, facilityIds)
C13_OnlyCallerLimitTruncates ==
  /\ output.done => Len(output.drivers) = Len(output.pushed)
  /\ output.rendered =>
       LET elig == EligibleFor(output.facilityIds)
           shown == {output.rows[j].id : j \in 1..Len(output.rows)}
       IN /\ Len(output.rows) = Min(output.maxRows, Len(elig))
          /\ \A j \in 1..Len(output.rows) : \A e \in 1..Len(elig) :
               elig[e].id \notin shown => output.rows[j].lostProduction >= elig[e].lostProduction

\* C14: when the only defect of a payload is that some Facility lacks its required
\* type, the ingestion succeeds and keeps every other Facility (and the unit), in
\* order; only the defective Facility is dropped.
TypedFacilities == SelectSeq(input.facilities, LAMBDA f : f.type # Absent)
OnlyTypeMissing ==
  /\ \E i \in 1..Len(input.facilities) : input.facilities[i].type = Absent
  /\ ProductionUnitSchema([input EXCEPT !.facilities = TypedFacilities]).ok
C14_DefectiveFacilityDropped ==
  (output.done /\ OnlyTypeMissing) =>
    /\ output.ok
    /\ output.value = ProductionUnitSchema([input EXCEPT !.facilities = TypedFacilities]).value

\* C15: every status change of an OptimisationAction, made optimistically in the
\* cache or by the update endpoint, is pending -> acknowledged, acknowledged ->
\* implementing, implementing -> completed, or pending / acknowledged -> rejected;
\* completed and rejected are never left.
AllowedStatusChange(a, b) ==
  \/ a = b
  \/ <<a, b>> \in { <<"pending", "acknowledged">>, <<"acknowledged", "implementing">>,
                    <<"implementing", "completed">>, <<"pending", "rejected">>,
                    <<"acknowledged", "rejected">> }
C15_StatusStateMachine ==
  [][ /\ \A id \in OptIds : AllowedStatusChange(server[id], server'[id])
      /\ (last'.op = "mutate" /\ last'.hook \in OptHooks) =>
           \A k \in OptKeys :
             \A id \in DOMAIN cache[k].data.items \cap DOMAIN cache'[k].data.items :
               AllowedStatusChange(cache[k].data.items[id], cache'[k].data.items[id]) ]_vars

\* C16: an optimistic transform or success update keeps the summary counters of
\* every collection it writes consistent: a counter that equalled the number of
\* items in its status before the step still does after it, and no counter is
\* negative.
CounterStatus(c) == IF c = "implemented" THEN "completed" ELSE c
CounterConsistent(data, c) == data.summary[c] = CountStatus(data.items, CounterStatus(c))
C16_CountersConsistent ==
  [][ \A k \in OptKeys \cup AlertKeys :
        (last'.op \in {"mutate", "success"} /\ cache[k].data.shape = "response"
           /\ cache'[k].data # cache[k].data) =>
          \A c \in DOMAIN cache'[k].data.summary :
            /\ cache'[k].data.summary[c] >= 0
            /\ CounterConsistent(cache[k].data, c) => CounterConsistent(cache'[k].data, c) ]_vars

\* C17: no half-applied optimistic update is left for a reader: once onMutate has
\* run, either every cached collection matched by the mutation that holds data
\* carries the optimistic transform, or none does.
C17_OptimisticUpdateAllOrNothing ==
  [][ (last'.op = "mutate" /\ HasOnMutate(last'.hook)) =>
        LET matched == {k \in Keys : /\ cache[k].present
                                      /\ PartialMatchKey(k, HookPrefix(last'.hook))
                                      /\ cache[k].data # NoData}
            transformed == {k \in matched : cache'[k].data # cache[k].data}
        IN transformed = matched \/ transformed = {} ]_vars

\* C18: delivering the same event a second time right after the first leaves the
\* value and the stale mark of every cache entry as the first delivery left them,
\* and no delivery changes a cached value.
C18_EventDeliveryIdempotent ==
  [][ last'.op = "event" =>
        /\ \A k \in Keys : cache'[k].data = cache[k].data
        /\ last'.repeated => \A k \in Keys : cache'[k].stale = cache[k].stale ]_vars

\* an event was delivered twice in a row and an entry it addresses is stale
C18_Witness ==
  /\ last.op = "event" /\ last.repeated
  /\ \E k \in Keys :
       /\ cache[k].present /\ cache[k].stale
       /\ \E i \in 1..Len(EventFilters(lastEvent)) : PartialMatchKey(k, EventFilters(lastEvent)[i])

\* C19: a read whose fetch fails with anything other than a 4xx status is retried
\* 3 times, for every resource kind: its error is surfaced only after the 4th
\* network call has failed, and no read makes more than 4 calls.
C19_OtherFailuresRetriedThrice ==
  /\ \A k \in Keys : cache[k].calls <= 4
  /\ (last.op = "fetchFail" /\ ~(last.status >= 400 /\ last.status < 500) /\ ~last.retried) =>
       cache[last.key].calls = 4

\* C20: right after an implement mutation has succeeded, every cached entry of the
\* kinds optimisations, summary and nodes is marked stale.
C20_ImplementSuccessInvalidates ==
  (last.op = "success" /\ last.hook = "implementOptimisation") =>
    \A k \in Keys :
      (cache[k].present /\ KindOf(k) \in {"optimisations", "summary", "nodes"}) => cache[k].stale

\* an implement has succeeded while entries of all three kinds were cached with data
C20_Witness ==
  /\ last.op = "success" /\ last.hook = "implementOptimisation"
  /\ \A kind \in {"optimisations", "summary", "nodes"} :
       \E k \in Keys : cache[k].present /\ KindOf(k) = kind /\ cache[k].data # NoData /\ cache[k].stale

\* C21: a read of a key whose data is not stale returns the cached value and
\* starts no fetch; a read of a key whose data has become stale starts exactly one
\* refetch when none is running, and none when one is already running.
C21_ReadRefetchesOnlyWhenStale ==
  [][ last'.op = "read" =>
        LET k == last'.key IN
        /\ cache'[k].data = cache[k].data
        /\ (cache[k].data # NoData /\ ~cache[k].stale) => cache'[k] = cache[k]
        /\ (cache[k].data # NoData /\ cache[k].stale /\ cache[k].fetch = "idle") =>
             /\ cache'[k].fetch = "inflight" /\ cache'[k].calls = 1
             /\ cache'[k].orphans = cache[k].orphans
        /\ (cache[k].data # NoData /\ cache[k].stale /\ cache[k].fetch = "inflight") =>
             cache'[k] = cache[k] ]_vars

\* a read found stale data and its one refetch is running
C21_Witness ==
  /\ last.op = "read" /\ last.found = "stale"
  /\ cache[last.key].fetch = "inflight" /\ cache[last.key].calls = 1
  /\ cache[last.key].orphans = 0

\* C22: the delivery of an event of any of the four types kpi_update,
\* constraint_alert, optimisation_update and system_status leaves at least one
\* cached entry marked stale (every dashboard has cached entries).
C22_EveryTypedEventInvalidates ==
  [][ (last'.op = "event" /\ lastEvent'.type \in WebSocketEventType) =>
        \E k \in Keys : cache'[k].present /\ cache'[k].stale ]_vars

\* C23: after ingestion, for every network the unit's currentProduction, capacity
\* and deferment are the sums of the values of the unit's Facilities (a network
\* that an entity does not have counts as 0).
MetricOf(nets, n, field) == IF n \in DOMAIN nets THEN nets[n][field] ELSE 0
RECURSIVE SumOverFacilities(_, _, _)
SumOverFacilities(facs, n, field) ==
  IF facs = <<>> THEN 0
  ELSE MetricOf(Head(facs).networks, n, field) + SumOverFacilities(Tail(facs), n, field)
C23_UnitIsSumOfFacilities ==
  (output.done /\ output.ok) =>
    \A n \in NetworkNames : \A field \in {"currentProduction", "maxCapacity", "deferment"} :
      MetricOf(output.value.networks, n, field) = SumOverFacilities(output.value.facilities, n, field)

\* C24: every value stored under the assets cache key has passed ingestion
\* normalization: its unit and each of its facilities has a flaredGas entry,
\* whichever component triggered the fetch.
C24_AssetsEntryNormalized ==
  output.assets.has =>
    /\ "flaredGas" \in DOMAIN output.assets.value.networks
    /\ \A i \in 1..Len(output.assets.value.facilities) :
         "flaredGas" \in DOMAIN output.assets.value.facilities[i].networks

\* C25: when optimistic mutations on different ids overlap and one of them fails,
\* its rollback does not remove the optimistic change of a mutation that is still
\* in progress: an item that shows the other mutation's optimistic status before
\* the rollback still shows it after.
C25_RollbackKeepsOtherMutation ==
  [][ last'.op = "rollback" =>
        \A m \in 1..Len(muts') :
          (muts'[m].hasContext /\ muts'[m].id # last'.id) =>
            \A k \in DOMAIN muts'[m].context :
              (/\ muts'[m].id \in DOMAIN cache[k].data.items
               /\ cache[k].data.items[muts'[m].id] = HookStatus(muts'[m].hook)) =>
                /\ muts'[m].id \in DOMAIN cache'[k].data.items
                /\ cache'[k].data.items[muts'[m].id] = HookStatus(muts'[m].hook) ]_vars

\* C26: a mutation rollback never replaces a value that a fetch stored after the
\* mutation's snapshot was taken (the mutation's own optimistic write comes right
\* after the snapshot, so a value last written by a fetch is such a value).
C26_RollbackKeepsFetchedValue ==
  [][ last'.op = "rollback" =>
        \A k \in DOMAIN last'.context :
          (cache[k].byFetch /\ last'.context[k] # NoData) => cache'[k].data = cache[k].data ]_vars

\* C27: after a cargo-schedule update succeeds, every terminal-operations entry
\* that holds data, whatever its terminalId, is marked stale.
C27_CargoUpdateInvalidatesTerminalOperations ==
  (last.op = "success" /\ last.hook = "updateCargoSchedule") =>
    \A t \in TerminalId :
      output[kTerminalOperations(t)].data # NoData => output[kTerminalOperations(t)].stale

\* C28: the gap-driver id is a function of (asset, unit, facility, network) only and
\* is injective: every request gives a row the same id, and two different rows
\* never get the same id.
C28_GapDriverIdInjective ==
  /\ \A i, j \in 1..Len(output.a) : output.a[i] = output.a[j] /\ output.b[i] = output.b[j]
  /\ \A i, j \in 1..Len(output.a) : output.a[i] = output.b[j] => input.a = input.b
C28_Witness ==
  /\ Len(output.a) = MaxRequests
  /\ input.a.fac # input.b.fac
  /\ input.a.key = input.b.key
  /\ MockGapFacilities[input.a.fac].unitId = MockGapFacilities[input.b.fac].unitId

\* C29 (as stated): a close schedules a reconnect only if it was unclean and fewer
\* than maxAttempts automatic attempts were made since the last successful open.
C29_ReconnectBoundedSinceOpen ==
  (last.op = "close" /\ last.retried) =>
    (last.found = "unclean" /\ last.status < input.maxAttempts)
\* C29 (amended): a close schedules a reconnect only if it was unclean and fewer than
\* maxAttempts automatic attempts were made since the last successful open or the
\* last manual reconnect(); a clean close never schedules one.
C29_ReconnectBoundedSinceReset ==
  (last.op = "close" /\ last.retried) =>
    (last.found = "unclean" /\ output.reconnectAttempts <= input.maxAttempts)
C29_Witness ==
  last.op = "close" /\ last.retried /\ output.reconnectAttempts = input.maxAttempts /\ input.maxAttempts > 1

\* C30: once the subscription has been cleaned up, no timer started by it fires and
\* none of its handlers runs: no open, no close, no event delivery.
C30_NothingAfterCleanup ==
  output.cleaned => last.op \notin {"timer", "open", "close", "event"}

====
